---- MODULE Spec2Model ----
(***************************************************************************)
(* A model of apic's WSClient (src/ws.go): the goroutine that runs         *)
(* Start/run/connect, the reader goroutine of the connection, the          *)
(* context's cancellation, and concurrent callers of Stop, Close and Write.*)
(***************************************************************************)
EXTENDS Integers, Sequences, FiniteSets, TLC

\* ------------------------------------------------------------------ bounds
\* calls of connect per behaviour
MaxRuns == 3
\* messages the transport delivers on one connection
MaxMsgs == 2
\* advances of the clock during one connection
MaxTicks == 3
\* calls of the backoff policy
MaxCalls == 17
\* ------------------------------------------------------------------ errors
\* An error value is a pair <<kind, detail>>.
Nil == <<"nil", 0>>
ErrNotConnected == <<"NotConnected", 0>>
\* fmt.Errorf("%d: %w", c.currentAttempts, MaxAttemptsError)
MaxAttemptsError(n) == <<"MaxAttempts", n>>
\* the error of c.dialOptionsFunc()
OptionsError == <<"Options", 0>>
\* the provider's error returned as it is
DialOptionsErrorUnwrapped == OptionsError
\* fmt.Errorf("dial options: %w", err)
DialOptionsError == <<"dial options", OptionsError>>
\* the error of c.endpointFunc(), returned as it is
EndpointError == <<"Endpoint", 0>>
DialError == <<"Dial", 0>>
ReadError(c) == <<"Read", c>>
HandlerError(m) == <<"Handler", m>>
OnOpenError(c) == <<"OnOpen", c>>
EncoderError == <<"Encoder", 0>>
LimiterError == <<"Limiter", 0>>
WriteError(c) == <<"Write", c>>

\* errors.Is(err, MaxAttemptsError)
IsMaxAttempts(e) == e[1] = "MaxAttempts"

VARIABLES
    \* configuration, fixed by NewWSClient and its options
    maxAttempts,     \* c.maxAttempts
    writeLimiter,    \* c.writeLimiter != nil
    staleMessageTimeout, \* c.staleMessageTimeout, in seconds (0: none)
    pingInterval,    \* c.pingInterval != 0
    retryBudget,     \* c.shouldReconnect answers true at most this many times
    maxBackoff,      \* WithReconnectBackoff(maxBackoff), in milliseconds (0: not used)
    \* the policy installed by WithReconnectBackoff
    count,           \* its calls so far
    mills,           \* the jitter of the call in progress
    delay,           \* d, the time the call in progress sleeps, in milliseconds
    slept,           \* the time it has slept
    \* WSClient fields
    conn,            \* c.conn: 0 is nil, otherwise a connection id
    currentAttempts, \* c.currentAttempts
    \* the goroutine running Start
    pc,              \* its position
    dialed,          \* the connection the current attempt's Dial produced (0: none)
    localConn,       \* run's local variable conn
    err,             \* the error run is returning
    ret,             \* what Start returned
    curMsg,          \* the message the handler is running on
    \* the transport and the context
    isOpen,          \* the connections whose transport is open
    nextConn,        \* connections dialed so far
    cancelled,       \* ctx.Done() is closed
    \* the reader goroutine of the current attempt
    rstate,          \* "none", "read", "sendData", "sendErr", "done", "nil"
    readCnt,         \* messages conn.Read has returned on this connection
    orphans,         \* readers of earlier attempts that have not returned
    \* concurrent callers
    spc,             \* a caller of Stop: "idle", "closing"
    cpc,             \* a caller of Close: "idle", "closing" (holds connMu)
    wpc,             \* a caller of Write: "idle", "wait", "send", "returned"
    wret,            \* what the call of Write returned
    wsentOn,         \* the connection the call of Write called conn.Write on (0: none)
    wconn,           \* conn, the local of Write, of a call that goes on or has sent: c.conn as Write read it
    panicked,        \* the process died of a nil dereference
    \* the clock, the stale ticker and the ping goroutine of the current attempt
    age,             \* seconds since connectedAt, up to Grace
    gotMsg,          \* lastMessageTimestamp is not the zero time
    silence,         \* seconds since lastMessageTimestamp, up to the timeout + 1
    ticks,           \* advances of the clock during this connection
    tickPending,     \* a tick waits in staleTicker.C
    tickerStopped,   \* staleTicker.Stop() has been called
    staleCloses,     \* calls of conn.Close by the stale check
    staleChecked,    \* the loop has taken a tick of staleTicker.C
    pinger,          \* "none", "running", "probing", "failed", "done"
    oldPingers,      \* ping goroutines of earlier calls of run that have not returned
    \* history
    connectCalls,    \* calls of connect
    dialAttempts,    \* calls of connect that went past the ceiling check
    endpointCalls,   \* calls of endpointFunc
    dials,           \* calls of websocket.Dial
    dialFails,       \* calls of websocket.Dial that returned an error
    policyCount,     \* calls of shouldReconnect
    policyTrue,      \* calls of shouldReconnect that returned true
    policyDialErrs,  \* calls of shouldReconnect with a Dial error
    lastPolicy,      \* the last call of shouldReconnect: its argument and answer
    cause,           \* why the current attempt (call of run) ended ("none": it has not)
    cancelEnded,     \* the event loop has ended an attempt on ctx.Done()
    streak,          \* calls of connect past the ceiling check since the last connection
    active,          \* calls of the handler that have not returned
    opened,          \* calls of onOpen in the current attempt
    closed,          \* calls of onClose in the current attempt
    handled          \* the messages the handler was called with in the current attempt

optVars == <<maxAttempts, writeLimiter, staleMessageTimeout, pingInterval, retryBudget,
             maxBackoff>>
backoffVars == <<count, mills, delay, slept>>
\* what only the reconnect policy changes
cfgVars == <<optVars, backoffVars>>
clockVars == <<age, gotMsg, silence, ticks>>
tickerVars == <<tickPending, tickerStopped, staleCloses, staleChecked>>
timerVars == <<clockVars, tickerVars, pinger, oldPingers>>
supVars == <<conn, currentAttempts, pc, dialed, localConn, err, ret, curMsg>>
envVars == <<isOpen, nextConn, cancelled>>
readerVars == <<rstate, readCnt, orphans>>
writerVars == <<wpc, wret, wsentOn, wconn>>
callerVars == <<spc, cpc, writerVars, panicked>>
dialHist == <<connectCalls, dialAttempts, endpointCalls, dials, dialFails, streak>>
polHist == <<policyCount, policyTrue, policyDialErrs, lastPolicy>>
cbHist == <<opened, closed, handled>>
histVars == <<dialHist, polHist, cause, cancelEnded, active, cbHist>>
vars == <<cfgVars, supVars, envVars, readerVars, callerVars, timerVars, histVars>>

\* the ceilings c.maxAttempts is configured with (0: none)
Ceilings == {0, 1, 2, 5}

\* NewWSClient: no connection, no attempts made; Start has not been called.
Fresh ==
    /\ conn = 0
    /\ currentAttempts = 0
    /\ pc = "idle"
    /\ dialed = 0
    /\ localConn = 0
    /\ err = Nil
    /\ ret = Nil
    /\ curMsg = 0
    /\ isOpen = {}
    /\ nextConn = 0
    /\ cancelled = FALSE
    /\ rstate = "none"
    /\ readCnt = 0
    /\ orphans = 0
    /\ spc = "idle"
    /\ cpc = "idle"
    /\ wpc = "idle"
    /\ wret = Nil
    /\ wsentOn = 0
    /\ wconn = 0
    /\ panicked = FALSE
    /\ count = 0
    /\ mills = 0
    /\ delay = 0
    /\ slept = 0
    /\ age = 0
    /\ gotMsg = FALSE
    /\ silence = 0
    /\ ticks = 0
    /\ tickPending = FALSE
    /\ tickerStopped = FALSE
    /\ staleCloses = 0
    /\ staleChecked = FALSE
    /\ pinger = "none"
    /\ oldPingers = 0
    /\ connectCalls = 0
    /\ dialAttempts = 0
    /\ endpointCalls = 0
    /\ dials = 0
    /\ dialFails = 0
    /\ policyCount = 0
    /\ policyTrue = 0
    /\ policyDialErrs = 0
    /\ lastPolicy = [err |-> Nil, again |-> TRUE]
    /\ cause = "none"
    /\ cancelEnded = FALSE
    /\ streak = 0
    /\ active = 0
    /\ opened = 0
    /\ closed = 0
    /\ handled = <<>>

\* the options besides the ceiling left at NewWSClient's defaults, the
\* reconnect policy any function
Defaults ==
    /\ writeLimiter = FALSE
    /\ staleMessageTimeout = 0
    /\ pingInterval = FALSE
    /\ retryBudget = MaxRuns
    /\ maxBackoff = 0

\* a client with any of the ceilings
Init ==
    /\ maxAttempts \in Ceilings
    /\ Defaults
    /\ Fresh

\* connMu kept by run from its read of c.conn until onOpen has returned
LockHeldAcrossOnOpen == cpc = "idle" /\ pc # "onOpen"

\* connMu is write-locked for longer than an instant only by Close.
LockFree == cpc = "idle"

\* ------------------------------------------------------------ the supervisor
\* Start is called: the loop's first call of run, which calls connect.
StartCall ==
    /\ ~panicked
    /\ pc = "idle"
    /\ pc' = "connect"
    /\ UNCHANGED <<cfgVars, timerVars, conn, currentAttempts, dialed, localConn, err, ret, curMsg,
                   envVars, readerVars, callerVars, histVars>>

\* Start called again with the counter set back to 0
StartAgainResets ==
    /\ ~panicked
    /\ pc = "done"
    /\ connectCalls < MaxRuns
    /\ pc' = "connect"
    /\ ret' = Nil
    /\ currentAttempts' = 0
    /\ cancelled' \in {FALSE, cancelled}
    /\ UNCHANGED <<cfgVars, timerVars, conn, dialed, localConn, err, curMsg,
                   isOpen, nextConn, readerVars, callerVars, histVars>>

\* Start is called again on the client after it has returned, with the same
\* context or with a new one: the fields of the client are as the call before
\* left them
StartAgain ==
    /\ ~panicked
    /\ pc = "done"
    /\ connectCalls < MaxRuns
    /\ pc' = "connect"
    /\ ret' = Nil
    /\ cancelled' \in {FALSE, cancelled}
    /\ UNCHANGED <<cfgVars, timerVars, conn, currentAttempts, dialed, localConn, err, curMsg,
                   isOpen, nextConn, readerVars, callerVars, histVars>>

\* the ceiling check with > for >=
AtCeilingOffByOne == maxAttempts > 0 /\ currentAttempts > maxAttempts

\* connect's ceiling check
AtCeiling == maxAttempts > 0 /\ currentAttempts >= maxAttempts

\* run returns e without having connected: connect's deferred increment has run.
ConnectFails(e) ==
    /\ err' = e
    /\ currentAttempts' = currentAttempts + 1
    /\ pc' = "runRet"
    /\ cause' = "connect"

\* A new call of run that goes on with the channels and the reader of the one
\* before
NewAttemptKeepsChannels ==
    /\ dialed' = 0
    /\ localConn' = 0
    /\ UNCHANGED <<rstate, readCnt, orphans>>
    /\ opened' = 0
    /\ closed' = 0
    /\ handled' = <<>>
    /\ age' = 0
    /\ gotMsg' = FALSE
    /\ silence' = 0
    /\ ticks' = 0
    /\ tickPending' = FALSE
    /\ tickerStopped' = FALSE
    /\ staleCloses' = 0
    /\ staleChecked' = FALSE
    /\ pinger' = "none"
    /\ oldPingers' = oldPingers + (IF pinger \in {"running", "probing"} THEN 1 ELSE 0)

\* A new call of run: the reader of the attempt before, unless it has returned,
\* stays behind; the per-attempt history starts afresh.
NewAttempt ==
    /\ dialed' = 0
    /\ localConn' = 0
    /\ rstate' = "none"
    /\ readCnt' = 0
    /\ orphans' = orphans + (IF rstate \in {"read", "sendData", "sendErr"} THEN 1 ELSE 0)
    /\ opened' = 0
    /\ closed' = 0
    /\ handled' = <<>>
    /\ age' = 0
    /\ gotMsg' = FALSE
    /\ silence' = 0
    /\ ticks' = 0
    /\ tickPending' = FALSE
    /\ tickerStopped' = FALSE
    /\ staleCloses' = 0
    /\ staleChecked' = FALSE
    /\ pinger' = "none"
    /\ oldPingers' = oldPingers + (IF pinger \in {"running", "probing"} THEN 1 ELSE 0)

\* connect up to the call of websocket.Dial
Connect ==
    /\ ~panicked
    /\ pc = "connect"
    /\ connectCalls < MaxRuns
    /\ connectCalls' = connectCalls + 1
    /\ NewAttempt
    /\ IF AtCeiling
       THEN /\ ConnectFails(MaxAttemptsError(currentAttempts))
            /\ UNCHANGED <<dialAttempts, endpointCalls, dials, streak>>
       ELSE /\ dialAttempts' = dialAttempts + 1
            /\ streak' = streak + 1
            /\ \/ \* dialOptionsFunc returns an error
                  /\ ConnectFails(DialOptionsError)
                  /\ UNCHANGED <<endpointCalls, dials>>
               \/ \* endpointFunc returns an error
                  /\ ConnectFails(EndpointError)
                  /\ endpointCalls' = endpointCalls + 1
                  /\ UNCHANGED dials
               \/ \* websocket.Dial is called
                  /\ endpointCalls' = endpointCalls + 1
                  /\ dials' = dials + 1
                  /\ pc' = "dialing"
                  /\ cause' = "none"
                  /\ UNCHANGED <<err, currentAttempts>>
    /\ UNCHANGED <<cfgVars, conn, ret, curMsg, envVars, callerVars, dialFails, polHist,
                   cancelEnded, active>>

\* websocket.Dial returns an error (always, once ctx is cancelled)
DialFail ==
    /\ ~panicked
    /\ pc = "dialing"
    /\ ConnectFails(DialError)
    /\ dialFails' = dialFails + 1
    /\ UNCHANGED <<cfgVars, timerVars, conn, dialed, localConn, ret, curMsg, envVars, readerVars,
                   callerVars, connectCalls, dialAttempts, endpointCalls, dials, streak,
                   polHist, cancelEnded, active, cbHist>>

\* websocket.Dial returns a connection: connect stores it under the lock and returns nil
DialOk ==
    /\ ~panicked
    /\ pc = "dialing"
    /\ ~cancelled
    /\ LockFree
    /\ nextConn' = nextConn + 1
    /\ conn' = nextConn + 1
    /\ dialed' = nextConn + 1
    /\ isOpen' = isOpen \cup {nextConn + 1}
    /\ currentAttempts' = currentAttempts + 1
    /\ streak' = 0
    /\ pc' = "connected"
    /\ UNCHANGED <<cfgVars, timerVars, localConn, err, ret, curMsg, cancelled, readerVars,
                   callerVars, connectCalls, dialAttempts, endpointCalls, dials, dialFails,
                   polHist, cause, cancelEnded, active, cbHist>>

\* run without the reset of c.currentAttempts
RunSnapshotNoReset ==
    /\ ~panicked
    /\ pc = "connected"
    /\ LockFree
    /\ localConn' = conn
    /\ rstate' = IF conn = 0 THEN "nil" ELSE "read"
    /\ pc' = "onOpen"
    /\ UNCHANGED <<cfgVars, timerVars, conn, currentAttempts, dialed, err, ret, curMsg, envVars,
                   readCnt, orphans, callerVars, histVars>>

\* run after connect returned nil: the counter is reset, c.conn is read under the
\* read lock, the reader goroutine is started on it.
RunSnapshot ==
    /\ ~panicked
    /\ pc = "connected"
    /\ LockFree
    /\ currentAttempts' = 0
    /\ localConn' = conn
    /\ rstate' = IF conn = 0 THEN "nil" ELSE "read"
    /\ pc' = "onOpen"
    /\ UNCHANGED <<cfgVars, timerVars, conn, dialed, err, ret, curMsg, envVars, readCnt, orphans,
                   callerVars, histVars>>

\* run returns e from the event loop or from onOpen: the deferred calls follow.
\* withOnClose: the defer of onClose had been registered.
EndAttempt(e, why, withOnClose) ==
    /\ err' = e
    /\ cause' = why
    /\ pc' = IF withOnClose THEN "onClose" ELSE "teardownClose"

\* onOpen's error is noted and run goes on into the event loop
OnOpenErrorIgnored ==
    /\ ~panicked
    /\ pc = "onOpen"
    /\ opened' = opened + 1
    /\ pc' = "loop"
    /\ pinger' = IF pingInterval THEN "running" ELSE "none"
    /\ \/ UNCHANGED <<err, cause>>
       \/ err' = OnOpenError(dialed) /\ cause' = "onOpen"
    /\ UNCHANGED <<cfgVars, clockVars, tickerVars, oldPingers, conn, currentAttempts, dialed, localConn,
                   ret, curMsg, envVars, readerVars, callerVars, dialHist, polHist,
                   cancelEnded, active, closed, handled>>

\* c.onOpen(c); when it returns nil the defer of onClose is registered, the stale
\* ticker is created and, with a ping interval, the ping goroutine is started
OnOpen ==
    /\ ~panicked
    /\ pc = "onOpen"
    /\ opened' = opened + 1
    /\ \/ /\ pc' = "loop"
          /\ pinger' = IF pingInterval THEN "running" ELSE "none"
          /\ UNCHANGED <<err, cause>>
       \/ /\ EndAttempt(OnOpenError(dialed), "onOpen", FALSE)
          /\ UNCHANGED pinger
    /\ UNCHANGED <<cfgVars, clockVars, tickerVars, oldPingers, conn, currentAttempts, dialed, localConn, ret, curMsg,
                   envVars, readerVars, callerVars, dialHist, polHist, cancelEnded, active,
                   closed, handled>>

\* a receive that leaves the message in the channel
LoopRecvDataReplays ==
    /\ ~panicked
    /\ pc = "loop"
    /\ rstate = "sendData"
    /\ rstate' = "sendData"
    /\ curMsg' = readCnt
    /\ handled' = Append(handled, readCnt)
    /\ active' = active + 1
    /\ gotMsg' = TRUE
    /\ silence' = 0
    /\ pc' = "handler"
    /\ UNCHANGED <<cfgVars, age, ticks, tickerVars, pinger, oldPingers, conn, currentAttempts, dialed, localConn, err, ret,
                   envVars, readCnt, orphans, callerVars, dialHist, polHist, cause,
                   cancelEnded, opened, closed>>

\* case bts := <-data: the reader's send completes, lastMessageTimestamp is set
\* to now and the handler is called
LoopRecvData ==
    /\ ~panicked
    /\ pc = "loop"
    /\ rstate = "sendData"
    /\ rstate' = "read"
    /\ curMsg' = readCnt
    /\ handled' = Append(handled, readCnt)
    /\ active' = active + 1
    /\ gotMsg' = TRUE
    /\ silence' = 0
    /\ pc' = "handler"
    /\ UNCHANGED <<cfgVars, age, ticks, tickerVars, pinger, oldPingers, conn, currentAttempts, dialed, localConn, err, ret,
                   envVars, readCnt, orphans, callerVars, dialHist, polHist, cause,
                   cancelEnded, opened, closed>>

\* the handler's error is noted and the loop goes on
HandlerReturnContinues ==
    /\ ~panicked
    /\ pc = "handler"
    /\ curMsg' = 0
    /\ active' = active - 1
    /\ pc' = "loop"
    /\ \/ UNCHANGED <<err, cause>>
       \/ err' = HandlerError(curMsg) /\ cause' = "handler"
    /\ UNCHANGED <<cfgVars, timerVars, conn, currentAttempts, dialed, localConn, ret,
                   envVars, readerVars, callerVars, dialHist, polHist, cancelEnded, cbHist>>

\* c.handler(bts) returns
HandlerReturn ==
    /\ ~panicked
    /\ pc = "handler"
    /\ curMsg' = 0
    /\ active' = active - 1
    /\ \/ /\ pc' = "loop"
          /\ UNCHANGED <<err, cause>>
       \/ EndAttempt(HandlerError(curMsg), "handler", TRUE)
    /\ UNCHANGED <<cfgVars, timerVars, conn, currentAttempts, dialed, localConn, ret,
                   envVars, readerVars, callerVars, dialHist, polHist, cancelEnded, cbHist>>

\* the loop returns nil on a read error
LoopRecvErrSwallowed ==
    /\ ~panicked
    /\ pc = "loop"
    /\ rstate = "sendErr"
    /\ rstate' = "done"
    /\ EndAttempt(Nil, "read", TRUE)
    /\ UNCHANGED <<cfgVars, timerVars, conn, currentAttempts, dialed, localConn, ret, curMsg,
                   envVars, readCnt, orphans, callerVars, dialHist, polHist, cancelEnded,
                   active, cbHist>>

\* case err := <-readErr: the reader's send completes, the reader closes its
\* channels and returns
LoopRecvErr ==
    /\ ~panicked
    /\ pc = "loop"
    /\ rstate = "sendErr"
    /\ rstate' = "done"
    /\ EndAttempt(ReadError(localConn), "read", TRUE)
    /\ UNCHANGED <<cfgVars, timerVars, conn, currentAttempts, dialed, localConn, ret, curMsg,
                   envVars, readCnt, orphans, callerVars, dialHist, polHist, cancelEnded,
                   active, cbHist>>

\* case <-ctx.Done(): return nil
LoopCancel ==
    /\ ~panicked
    /\ pc = "loop"
    /\ cancelled
    /\ EndAttempt(Nil, "cancel", TRUE)
    /\ cancelEnded' = TRUE
    /\ UNCHANGED <<cfgVars, timerVars, conn, currentAttempts, dialed, localConn, ret, curMsg,
                   envVars, readerVars, callerVars, dialHist, polHist, active, cbHist>>

\* the deferred staleTicker.Stop() and then the deferred c.onClose(c), whose
\* error is only logged
OnClose ==
    /\ ~panicked
    /\ pc = "onClose"
    /\ tickerStopped' = TRUE
    /\ closed' = closed + 1
    /\ pc' = "teardownClose"
    /\ UNCHANGED <<cfgVars, clockVars, tickPending, staleCloses, staleChecked, pinger, oldPingers, conn, currentAttempts, dialed, localConn, err, ret, curMsg,
                   envVars, readerVars, callerVars, dialHist, polHist, cause, cancelEnded,
                   active, opened, handled>>

\* run returns without closing its connection
TeardownCloseSkipped ==
    /\ ~panicked
    /\ pc = "teardownClose"
    /\ pc' = "teardownClear"
    /\ UNCHANGED <<cfgVars, timerVars, conn, currentAttempts, dialed, localConn, err, ret,
                   curMsg, envVars, readerVars, callerVars, histVars>>

\* the first deferred function: conn.Close(StatusInternalError, "app closing")
TeardownClose ==
    /\ ~panicked
    /\ pc = "teardownClose"
    /\ isOpen' = isOpen \ {localConn}
    /\ pc' = "teardownClear"
    /\ UNCHANGED <<cfgVars, timerVars, conn, currentAttempts, dialed, localConn, err, ret, curMsg,
                   nextConn, cancelled, readerVars, callerVars, histVars>>

\* run returning without c.conn = nil
TeardownClearSkipped ==
    /\ ~panicked
    /\ pc = "teardownClear"
    /\ LockFree
    /\ pc' = "runRet"
    /\ UNCHANGED <<cfgVars, timerVars, conn, currentAttempts, dialed, localConn, err, ret,
                   curMsg, envVars, readerVars, callerVars, histVars>>

\* ... and c.conn = nil under the lock; run returns
TeardownClear ==
    /\ ~panicked
    /\ pc = "teardownClear"
    /\ LockFree
    /\ conn' = 0
    /\ pc' = "runRet"
    /\ UNCHANGED <<cfgVars, timerVars, currentAttempts, dialed, localConn, err, ret, curMsg,
                   envVars, readerVars, callerVars, histVars>>

\* Start without the errors.Is(err, MaxAttemptsError) check
RunReturnAlwaysPolicy ==
    /\ ~panicked
    /\ pc = "runRet"
    /\ pc' = "policy"
    /\ UNCHANGED <<cfgVars, timerVars, conn, currentAttempts, dialed, localConn, err, ret, curMsg,
                   envVars, readerVars, callerVars, histVars>>

\* Start after run returned: MaxAttemptsError is returned at once, any other
\* error (nil too) is handed to the reconnect policy.
RunReturn ==
    /\ ~panicked
    /\ pc = "runRet"
    /\ IF IsMaxAttempts(err)
       THEN /\ ret' = err
            /\ pc' = "done"
       ELSE /\ pc' = "policy"
            /\ UNCHANGED ret
    /\ UNCHANGED <<cfgVars, timerVars, conn, currentAttempts, dialed, localConn, err, curMsg,
                   envVars, readerVars, callerVars, histVars>>

\* the answers c.shouldReconnect may give: it is the caller's function, which
\* may give up after some retries. A policy that always answers true
\* (WithReconnectBackoff) is the behaviours in which every answer was true, the
\* default policy those in which the first is false.
shouldReconnect == IF policyTrue < retryBudget THEN BOOLEAN ELSE {FALSE}

\* Start looping whatever the answer
AfterPolicyIgnored(again) == pc' = "connect" /\ UNCHANGED ret

\* Start trying once more after the first answer, whatever it is
AfterPolicyRetriesOnce(again) ==
    IF again \/ policyCount = 0
    THEN pc' = "connect" /\ UNCHANGED ret
    ELSE pc' = "done" /\ ret' = err

\* Start's use of the answer: false returns the error, true loops
AfterPolicy(again) ==
    IF again
    THEN pc' = "connect" /\ UNCHANGED ret
    ELSE pc' = "done" /\ ret' = err

\* c.shouldReconnect(err) returns (after its backoff, if it has one)
Policy ==
    /\ ~panicked
    /\ pc = "policy"
    /\ \E again \in shouldReconnect :
        /\ lastPolicy' = [err |-> err, again |-> again]
        /\ policyCount' = policyCount + 1
        /\ policyTrue' = policyTrue + (IF again THEN 1 ELSE 0)
        /\ policyDialErrs' = policyDialErrs + (IF err = DialError THEN 1 ELSE 0)
        /\ AfterPolicy(again)
    /\ UNCHANGED <<cfgVars, timerVars, conn, currentAttempts, dialed, localConn, err, curMsg,
                   envVars, readerVars, callerVars, dialHist, cause, cancelEnded, active,
                   cbHist>>

\* ------------------------------------------------- WithReconnectBackoff
minMillis == 5
maxMillis == 999

\* a ^ b in Go: the bitwise exclusive or
RECURSIVE Xor(_, _)
Xor(a, b) ==
    IF a = 0 THEN b
    ELSE IF b = 0 THEN a
    ELSE (((a % 2) + (b % 2)) % 2) + (2 * Xor(a \div 2, b \div 2))

\* some of the values of rand.Intn(maxMillis-minMillis), which are those from 0
\* to maxMillis-minMillis-1
Intn == {0, 1, maxMillis - minMillis - 1}

\* d without the cap
BackoffUncapped(n, m) == Xor(16, n) + m

\* d := time.Millisecond * time.Duration((16^count)+mills), capped at maxBackoff
Backoff(n, m) ==
    IF Xor(16, n) + m > maxBackoff THEN maxBackoff ELSE Xor(16, n) + m

\* c.shouldReconnect(err) is called: count++, the jitter is drawn, d is computed
\* and the ticker started
BackoffEnter ==
    /\ ~panicked
    /\ pc = "policy"
    /\ maxBackoff > 0
    /\ count < MaxCalls
    /\ count' = count + 1
    /\ \E r \in Intn :
        /\ mills' = r + minMillis
        /\ delay' = Backoff(count + 1, r + minMillis)
    /\ slept' = 0
    /\ pc' = "backoff"
    /\ UNCHANGED <<optVars, timerVars, conn, currentAttempts, dialed, localConn, err, ret,
                   curMsg, envVars, readerVars, callerVars, histVars>>

\* time passes while the policy waits on <-t.C: up to a millisecond short of d,
\* or up to d
BackoffElapse ==
    /\ ~panicked
    /\ pc = "backoff"
    /\ slept' \in {delay - 1, delay}
    /\ slept' > slept
    /\ UNCHANGED <<optVars, count, mills, delay, timerVars, supVars, envVars, readerVars,
                   callerVars, histVars>>

\* the policy returning before the ticker fires
BackoffReturnEarly ==
    /\ ~panicked
    /\ pc = "backoff"
    /\ mills' = 0
    /\ delay' = 0
    /\ slept' = 0
    /\ lastPolicy' = [err |-> err, again |-> TRUE]
    /\ policyCount' = policyCount + 1
    /\ policyTrue' = policyTrue + 1
    /\ policyDialErrs' = policyDialErrs + (IF err = DialError THEN 1 ELSE 0)
    /\ AfterPolicy(TRUE)
    /\ UNCHANGED <<optVars, count, timerVars, conn, currentAttempts, dialed, localConn, err,
                   curMsg, envVars, readerVars, callerVars, dialHist, cause, cancelEnded,
                   active, cbHist>>

\* the ticker fires after d: t.Stop(), return true, and Start loops
BackoffReturn ==
    /\ ~panicked
    /\ pc = "backoff"
    /\ slept = delay
    /\ mills' = 0
    /\ delay' = 0
    /\ slept' = 0
    /\ lastPolicy' = [err |-> err, again |-> TRUE]
    /\ policyCount' = policyCount + 1
    /\ policyTrue' = policyTrue + 1
    /\ policyDialErrs' = policyDialErrs + (IF err = DialError THEN 1 ELSE 0)
    /\ AfterPolicy(TRUE)
    /\ UNCHANGED <<optVars, count, timerVars, conn, currentAttempts, dialed, localConn, err,
                   curMsg, envVars, readerVars, callerVars, dialHist, cause, cancelEnded,
                   active, cbHist>>

\* ------------------------------------------------------------------ reader
\* a reader that does not wait for its send on data to complete
ReaderReadNoWait ==
    /\ ~panicked
    /\ rstate \in {"read", "sendData"}
    /\ localConn \in isOpen
    /\ ~cancelled
    /\ readCnt < MaxMsgs
    /\ readCnt' = readCnt + 1
    /\ rstate' = "sendData"
    /\ UNCHANGED <<cfgVars, timerVars, supVars, envVars, orphans, callerVars, histVars>>

\* conn.Read(ctx) returns a message: the reader goes on to send it on data
ReaderRead ==
    /\ ~panicked
    /\ rstate = "read"
    /\ localConn \in isOpen
    /\ ~cancelled
    /\ readCnt < MaxMsgs
    /\ readCnt' = readCnt + 1
    /\ rstate' = "sendData"
    /\ UNCHANGED <<cfgVars, timerVars, supVars, envVars, orphans, callerVars, histVars>>

\* conn.Read(ctx) returns an error (the peer closed, the network failed, the
\* connection was closed locally, the context was cancelled): the reader goes
\* on to send it on errs
ReaderFail ==
    /\ ~panicked
    /\ rstate = "read"
    /\ rstate' = "sendErr"
    /\ UNCHANGED <<cfgVars, timerVars, supVars, envVars, readCnt, orphans, callerVars, histVars>>

\* reader(ctx, nil, ...) dereferences the nil connection in conn.Read
ReaderNil ==
    /\ ~panicked
    /\ rstate = "nil"
    /\ panicked' = TRUE
    /\ UNCHANGED <<cfgVars, timerVars, supVars, envVars, readerVars, spc, cpc, writerVars, histVars>>

\* ----------------------------------------------------------------- context
Cancel ==
    /\ ~panicked
    /\ ~cancelled
    /\ cancelled' = TRUE
    /\ UNCHANGED <<cfgVars, timerVars, supVars, isOpen, nextConn, readerVars, callerVars, histVars>>

\* -------------------------------------------------------------------- Stop
\* if c.conn == nil { return nil }  (read without the lock)
StopCheck ==
    /\ ~panicked
    /\ spc = "idle"
    /\ conn # 0
    /\ spc' = "closing"
    /\ UNCHANGED <<cfgVars, timerVars, supVars, envVars, readerVars, cpc, writerVars, panicked,
                   histVars>>

\* Stop clearing c.conn as Close does
StopCloseClears ==
    /\ ~panicked
    /\ spc = "closing"
    /\ spc' = "idle"
    /\ conn' = 0
    /\ IF conn = 0
       THEN panicked' = TRUE /\ UNCHANGED isOpen
       ELSE isOpen' = isOpen \ {conn} /\ UNCHANGED panicked
    /\ UNCHANGED <<cfgVars, timerVars, currentAttempts, pc, dialed, localConn, err, ret,
                   curMsg, nextConn, cancelled, readerVars, cpc, writerVars, histVars>>

\* return c.conn.Close(StatusGoingAway, reason)  (c.conn is read again)
StopClose ==
    /\ ~panicked
    /\ spc = "closing"
    /\ spc' = "idle"
    /\ IF conn = 0
       THEN panicked' = TRUE /\ UNCHANGED isOpen
       ELSE isOpen' = isOpen \ {conn} /\ UNCHANGED panicked
    /\ UNCHANGED <<cfgVars, timerVars, supVars, nextConn, cancelled, readerVars, cpc, writerVars,
                   histVars>>

\* ------------------------------------------------------------- IsConnected
\* c.conn != nil, read under the read lock
IsConnected == conn # 0

\* ------------------------------------------------------------------- Close
\* c.connMu.Lock(); c.conn is not nil: conn.Close is called with the lock held
CloseBegin ==
    /\ ~panicked
    /\ cpc = "idle"
    /\ conn # 0
    /\ cpc' = "closing"
    /\ UNCHANGED <<cfgVars, timerVars, supVars, envVars, readerVars, spc, writerVars, panicked,
                   histVars>>

\* conn.Close returned; c.conn = nil; the lock is released
CloseEnd ==
    /\ ~panicked
    /\ cpc = "closing"
    /\ isOpen' = isOpen \ {conn}
    /\ conn' = 0
    /\ cpc' = "idle"
    /\ UNCHANGED <<cfgVars, timerVars, currentAttempts, pc, dialed, localConn, err, ret, curMsg,
                   nextConn, cancelled, readerVars, spc, writerVars, panicked, histVars>>

\* ------------------------------------------------------------------- Write
\* Write without the nil check
WriteEnterNoCheck ==
    /\ ~panicked
    /\ wpc = "idle"
    /\ LockFree
    /\ \/ wret' = EncoderError /\ wpc' = "returned"
       \/ wpc' = (IF writeLimiter THEN "wait" ELSE "send") /\ UNCHANGED wret
    /\ wconn' = (IF wpc' = "returned" THEN 0 ELSE conn)
    /\ UNCHANGED <<cfgVars, timerVars, supVars, envVars, readerVars, spc, cpc, wsentOn, panicked,
                   histVars>>

\* Write sending before it encodes
WriteEnterSendsFirst ==
    /\ ~panicked
    /\ wpc = "idle"
    /\ LockFree
    /\ IF conn = 0
       THEN wret' = ErrNotConnected /\ wpc' = "returned" /\ UNCHANGED wsentOn
       ELSE \/ wret' = EncoderError /\ wpc' = "returned" /\ wsentOn' = conn
            \/ /\ wpc' = (IF writeLimiter THEN "wait" ELSE "send")
               /\ UNCHANGED <<wret, wsentOn>>
    /\ wconn' = (IF wpc' = "returned" THEN 0 ELSE conn)
    /\ UNCHANGED <<cfgVars, timerVars, supVars, envVars, readerVars, spc, cpc, panicked,
                   histVars>>

\* Write: c.conn is read under the read lock; nil returns ErrNotConnected; then
\* the encoder runs, and its error is returned; then Send is entered.
WriteEnter ==
    /\ ~panicked
    /\ wpc = "idle"
    /\ LockFree
    /\ IF conn = 0
       THEN wret' = ErrNotConnected /\ wpc' = "returned"
       ELSE \/ wret' = EncoderError /\ wpc' = "returned"
            \/ wpc' = (IF writeLimiter THEN "wait" ELSE "send") /\ UNCHANGED wret
    /\ wconn' = (IF wpc' = "returned" THEN 0 ELSE conn)
    /\ UNCHANGED <<cfgVars, timerVars, supVars, envVars, readerVars, spc, cpc, wsentOn, panicked,
                   histVars>>

\* Send going on to the connection after the limiter's error
LimiterWaitSendsAnyway ==
    /\ ~panicked
    /\ wpc = "wait"
    /\ \/ wpc' = "send" /\ UNCHANGED <<wret, wsentOn>>
       \/ wpc' = "returned" /\ wret' = LimiterError /\ wsentOn' = conn
    /\ wconn' = (IF wpc' = "returned" THEN 0 ELSE wconn)
    /\ UNCHANGED <<cfgVars, timerVars, supVars, envVars, readerVars, spc, cpc, panicked,
                   histVars>>

\* Send: c.writeLimiter.Wait(ctx) returns, with a token or with an error (the
\* caller's context ended first)
LimiterWait ==
    /\ ~panicked
    /\ wpc = "wait"
    /\ \/ wpc' = "send" /\ UNCHANGED wret
       \/ wpc' = "returned" /\ wret' = LimiterError
    /\ wconn' = (IF wpc' = "returned" THEN 0 ELSE wconn)
    /\ UNCHANGED <<cfgVars, timerVars, supVars, envVars, readerVars, spc, cpc, wsentOn, panicked,
                   histVars>>

\* Send writing on the connection Write read when it was entered
SendWriteOnEntryConn ==
    /\ ~panicked
    /\ wpc = "send"
    /\ LockFree
    /\ wpc' = "returned"
    /\ IF wconn = 0
       THEN wret' = ErrNotConnected /\ UNCHANGED wsentOn
       ELSE /\ wsentOn' = wconn
            /\ wret' = IF wconn \in isOpen THEN Nil ELSE WriteError(wconn)
    /\ wconn' = (IF wsentOn' = 0 THEN 0 ELSE wconn)
    /\ UNCHANGED <<cfgVars, timerVars, supVars, envVars, readerVars, spc, cpc, panicked, histVars>>

\* Send: c.conn is read again under the read lock; nil returns ErrNotConnected,
\* otherwise conn.Write is called on it
SendWrite ==
    /\ ~panicked
    /\ wpc = "send"
    /\ LockFree
    /\ wpc' = "returned"
    /\ IF conn = 0
       THEN wret' = ErrNotConnected /\ UNCHANGED wsentOn
       ELSE /\ wsentOn' = conn
            /\ wret' = IF conn \in isOpen THEN Nil ELSE WriteError(conn)
    /\ wconn' = (IF wsentOn' = 0 THEN 0 ELSE wconn)
    /\ UNCHANGED <<cfgVars, timerVars, supVars, envVars, readerVars, spc, cpc, panicked, histVars>>

\* the caller has the result of Write
WriteReturn ==
    /\ ~panicked
    /\ wpc = "returned"
    /\ wpc' = "idle"
    /\ wret' = Nil
    /\ wsentOn' = 0
    /\ wconn' = 0
    /\ UNCHANGED <<cfgVars, timerVars, supVars, envVars, readerVars, spc, cpc, panicked, histVars>>


\* ------------------------------------------------- the clock and the timers
\* "let the connection ride for a minute": time.Minute, in seconds
Grace == 60

\* the steps the clock advances by, in seconds
Elapses == {1, 59}

Min(a, b) == IF a < b THEN a ELSE b

\* d seconds pass while a connection is up. The stale ticker, once created and
\* until stopped, leaves a tick in its channel (which holds one): every second
\* with a timeout configured, every 60 seconds without (taken here from the
\* connection's age, which is at least the ticker's).
Tick(d) ==
    /\ ~panicked
    /\ pc \in {"onOpen", "loop", "handler", "staleClose"}
    /\ ticks < MaxTicks
    /\ ticks' = ticks + 1
    /\ age' = Min(age + d, Grace)
    /\ silence' = IF gotMsg THEN Min(silence + d, staleMessageTimeout + 1) ELSE 0
    /\ tickPending' = \/ tickPending
                      \/ /\ pc # "onOpen"
                         /\ ~tickerStopped
                         /\ (staleMessageTimeout # 0 \/ age' >= Grace)
    /\ UNCHANGED <<cfgVars, supVars, envVars, readerVars, callerVars, gotMsg,
                   tickerStopped, staleCloses, staleChecked, pinger, oldPingers, histVars>>

\* a stale check that counts the silence of a connection without a message from
\* the time it connected
IsStaleSinceConnect == IF gotMsg THEN silence > staleMessageTimeout ELSE age > staleMessageTimeout

\* the stale check finds the connection stale:
\* lastMessageTimestamp.Before(time.Now().Add(-1 * c.staleMessageTimeout)),
\* which the zero time always is
IsStale == ~gotMsg \/ silence > staleMessageTimeout

\* the stale check is skipped: lastMessageTimestamp.IsZero() and connectedAt is
\* after a minute ago
InGrace == ~gotMsg /\ age < Grace

\* the stale check without the grace period
StaleTickNoGrace ==
    /\ ~panicked
    /\ pc = "loop"
    /\ tickPending
    /\ tickPending' = FALSE
    /\ staleChecked' = TRUE
    /\ IF staleMessageTimeout # 0 /\ IsStale
       THEN /\ staleCloses' = staleCloses + 1
            /\ IF localConn = 0
               THEN panicked' = TRUE /\ UNCHANGED <<pc, isOpen>>
               ELSE /\ isOpen' = isOpen \ {localConn}
                    /\ pc' = "staleClose"
                    /\ UNCHANGED panicked
       ELSE UNCHANGED <<staleCloses, pc, isOpen, panicked>>
    /\ UNCHANGED <<cfgVars, conn, currentAttempts, dialed, localConn, err, ret, curMsg,
                   nextConn, cancelled, readerVars, spc, cpc, writerVars, clockVars,
                   tickerStopped, pinger, oldPingers, histVars>>

\* the stale check without the test for a configured timeout
StaleTickNoConfigCheck ==
    /\ ~panicked
    /\ pc = "loop"
    /\ tickPending
    /\ tickPending' = FALSE
    /\ staleChecked' = TRUE
    /\ IF ~InGrace /\ IsStale
       THEN /\ staleCloses' = staleCloses + 1
            /\ IF localConn = 0
               THEN panicked' = TRUE /\ UNCHANGED <<pc, isOpen>>
               ELSE /\ isOpen' = isOpen \ {localConn}
                    /\ pc' = "staleClose"
                    /\ UNCHANGED panicked
       ELSE UNCHANGED <<staleCloses, pc, isOpen, panicked>>
    /\ UNCHANGED <<cfgVars, conn, currentAttempts, dialed, localConn, err, ret, curMsg,
                   nextConn, cancelled, readerVars, spc, cpc, writerVars, clockVars,
                   tickerStopped, pinger, oldPingers, histVars>>

\* case <-staleTicker.C: without a timeout, or in the grace period, or with a
\* recent message, the loop goes on; otherwise conn.Close(StatusGoingAway, ...) is
\* called on run's connection (a nil one is dereferenced)
StaleTick ==
    /\ ~panicked
    /\ pc = "loop"
    /\ tickPending
    /\ tickPending' = FALSE
    /\ staleChecked' = TRUE
    /\ IF staleMessageTimeout # 0 /\ ~InGrace /\ IsStale
       THEN /\ staleCloses' = staleCloses + 1
            /\ IF localConn = 0
               THEN panicked' = TRUE /\ UNCHANGED <<pc, isOpen>>
               ELSE /\ isOpen' = isOpen \ {localConn}
                    /\ pc' = "staleClose"
                    /\ UNCHANGED panicked
       ELSE UNCHANGED <<staleCloses, pc, isOpen, panicked>>
    /\ UNCHANGED <<cfgVars, conn, currentAttempts, dialed, localConn, err, ret, curMsg,
                   nextConn, cancelled, readerVars, spc, cpc, writerVars, clockVars,
                   tickerStopped, pinger, oldPingers, histVars>>

\* conn.Close has returned: staleTicker.Stop(), which leaves a tick that is
\* already in the channel there, and the loop goes on
StaleCloseReturn ==
    /\ ~panicked
    /\ pc = "staleClose"
    /\ tickerStopped' = TRUE
    /\ pc' = "loop"
    /\ UNCHANGED <<cfgVars, conn, currentAttempts, dialed, localConn, err, ret, curMsg,
                   envVars, readerVars, callerVars, clockVars, tickPending, staleCloses,
                   staleChecked, pinger, oldPingers, histVars>>

\* the ping goroutine: case <-t.C, c.pingHandler(ctx, c) is called
PingTick ==
    /\ ~panicked
    /\ pinger = "running"
    /\ pinger' = "probing"
    /\ UNCHANGED <<cfgVars, supVars, envVars, readerVars, callerVars, clockVars,
                   tickerVars, oldPingers, histVars>>

\* c.pingHandler returns: nil, and the goroutine waits for the next tick; or an
\* error, which is logged, and the goroutine returns
PingReturn ==
    /\ ~panicked
    /\ pinger = "probing"
    /\ pinger' \in {"running", "failed"}
    /\ UNCHANGED <<cfgVars, supVars, envVars, readerVars, callerVars, clockVars,
                   tickerVars, oldPingers, histVars>>

\* the ping goroutine: case <-ctx.Done(), the goroutine returns
PingCancel ==
    /\ ~panicked
    /\ pinger = "running"
    /\ cancelled
    /\ pinger' = "done"
    /\ UNCHANGED <<cfgVars, supVars, envVars, readerVars, callerVars, clockVars,
                   tickerVars, oldPingers, histVars>>

\* the ping goroutine of an earlier call of run: c.pingHandler returns an error
\* at one of its ticks, and the goroutine returns
OldPingFails ==
    /\ ~panicked
    /\ oldPingers > 0
    /\ oldPingers' = oldPingers - 1
    /\ UNCHANGED <<cfgVars, supVars, envVars, readerVars, callerVars, clockVars,
                   tickerVars, pinger, histVars>>

\* the ping goroutine of an earlier call of run: case <-ctx.Done()
OldPingCancel ==
    /\ ~panicked
    /\ oldPingers > 0
    /\ cancelled
    /\ oldPingers' = oldPingers - 1
    /\ UNCHANGED <<cfgVars, supVars, envVars, readerVars, callerVars, clockVars,
                   tickerVars, pinger, histVars>>

\* the goroutine of Start without its call of the reconnect policy, the reader
\* of a connection and the context
Attempts ==
    \/ StartCall
    \/ Connect
    \/ DialFail
    \/ DialOk
    \/ RunSnapshot
    \/ OnOpen
    \/ LoopRecvData
    \/ HandlerReturn
    \/ LoopRecvErr
    \/ LoopCancel
    \/ OnClose
    \/ TeardownClose
    \/ TeardownClear
    \/ RunReturn
    \/ ReaderRead
    \/ ReaderFail
    \/ Cancel

\* ... with a reconnect policy that is any function
Session ==
    \/ Attempts
    \/ Policy

\* ... with the reader that run starts on a nil connection
Core ==
    \/ Session
    \/ ReaderNil

\* ... with callers of Stop and of Close
Next ==
    \/ Core
    \/ StopCheck
    \/ StopClose
    \/ CloseBegin
    \/ CloseEnd

Spec == Init /\ [][Next]_vars

\* The client with callers of Close and of Write, with and without a write limiter.
InitWrite ==
    /\ maxAttempts \in {0, 1}
    /\ writeLimiter \in BOOLEAN
    /\ staleMessageTimeout = 0
    /\ pingInterval = FALSE
    /\ retryBudget = MaxRuns
    /\ maxBackoff = 0
    /\ Fresh

NextWrite ==
    \/ Core
    \/ CloseBegin
    \/ CloseEnd
    \/ WriteEnter
    \/ LimiterWait
    \/ SendWrite
    \/ WriteReturn

SpecWrite == InitWrite /\ [][NextWrite]_vars

\* The client with a stale timeout of 0 or 2 seconds, no ceiling and a policy
\* that retries at most once, without callers of Stop and Close; the clock
\* advances.
InitTimers ==
    /\ maxAttempts = 0
    /\ writeLimiter = FALSE
    /\ staleMessageTimeout \in {0, 2}
    /\ pingInterval = FALSE
    /\ retryBudget = 1
    /\ maxBackoff = 0
    /\ Fresh

NextTimers ==
    \/ Session
    \/ \E d \in Elapses : Tick(d)
    \/ StaleTick
    \/ StaleCloseReturn

SpecTimers == InitTimers /\ [][NextTimers]_vars

\* conn.Read on a connection that has been closed returns its error
ReaderFailClosed == ReaderFail /\ localConn \notin isOpen

\* a step of the goroutine of Start from the event loop to Start's test of
\* run's error
LoopStep ==
    \/ LoopRecvData
    \/ LoopRecvErr
    \/ LoopCancel
    \/ HandlerReturn
    \/ StaleCloseReturn
    \/ OnClose
    \/ TeardownClose
    \/ TeardownClear
    \/ RunReturn

\* Every goroutine that can run does: the reader gets the error of a closed
\* connection and sends it; the handler, conn.Close and onClose return, and the
\* loop's select takes a case when one stays ready.
TimersFairness ==
    /\ WF_vars(ReaderFailClosed)
    /\ WF_vars(LoopStep)

SpecTimersFair == SpecTimers /\ TimersFairness

\* The client with and without a ping interval, no ceiling and a policy that
\* retries at most once, without callers of Stop and Close.
InitPing ==
    /\ maxAttempts = 0
    /\ writeLimiter = FALSE
    /\ staleMessageTimeout = 0
    /\ pingInterval \in BOOLEAN
    /\ retryBudget = 1
    /\ maxBackoff = 0
    /\ Fresh

NextPing ==
    \/ Session
    \/ PingTick
    \/ PingReturn
    \/ PingCancel
    \/ OldPingFails
    \/ OldPingCancel

SpecPing == InitPing /\ [][NextPing]_vars

SpecPingFair == SpecPing /\ TimersFairness

\* The client with WithReconnectBackoff, with and without a ceiling, without
\* callers of Stop and Close.
InitReconnect ==
    /\ maxAttempts \in {0, 2}
    /\ writeLimiter = FALSE
    /\ staleMessageTimeout = 0
    /\ pingInterval = FALSE
    /\ retryBudget = MaxRuns
    /\ maxBackoff \in {1, 30}
    /\ Fresh

NextReconnect ==
    \/ Attempts
    \/ BackoffEnter
    \/ BackoffElapse
    \/ BackoffReturn

SpecReconnect == InitReconnect /\ [][NextReconnect]_vars

\* The client with WithReconnectBackoff after k dials that all failed, about to
\* call the policy for the (k+1)-th time
AfterFailedDials(k) ==
    /\ conn = 0
    /\ currentAttempts = k + 1
    /\ pc = "policy"
    /\ dialed = 0
    /\ localConn = 0
    /\ err = DialError
    /\ ret = Nil
    /\ curMsg = 0
    /\ isOpen = {}
    /\ nextConn = 0
    /\ cancelled = FALSE
    /\ rstate = "none"
    /\ readCnt = 0
    /\ orphans = 0
    /\ spc = "idle"
    /\ cpc = "idle"
    /\ wpc = "idle"
    /\ wret = Nil
    /\ wsentOn = 0
    /\ wconn = 0
    /\ panicked = FALSE
    /\ count = k
    /\ mills = 0
    /\ delay = 0
    /\ slept = 0
    /\ age = 0
    /\ gotMsg = FALSE
    /\ silence = 0
    /\ ticks = 0
    /\ tickPending = FALSE
    /\ tickerStopped = FALSE
    /\ staleCloses = 0
    /\ staleChecked = FALSE
    /\ pinger = "none"
    /\ oldPingers = 0
    /\ connectCalls = k + 1
    /\ dialAttempts = k + 1
    /\ endpointCalls = k + 1
    /\ dials = k + 1
    /\ dialFails = k + 1
    /\ policyCount = k
    /\ policyTrue = k
    /\ policyDialErrs = k
    /\ lastPolicy = [err |-> IF k = 0 THEN Nil ELSE DialError, again |-> TRUE]
    /\ cause = "connect"
    /\ cancelEnded = FALSE
    /\ streak = k + 1
    /\ active = 0
    /\ opened = 0
    /\ closed = 0
    /\ handled = <<>>

\* the backoff policy on its own: any number of calls made, several values of
\* maxBackoff
InitBackoff ==
    /\ maxAttempts = 0
    /\ writeLimiter = FALSE
    /\ staleMessageTimeout = 0
    /\ pingInterval = FALSE
    /\ retryBudget = MaxRuns
    /\ maxBackoff \in {1, 4, 5, 30, 300000}
    /\ \E k \in 0..(MaxCalls - 1) : AfterFailedDials(k)

NextBackoff ==
    \/ BackoffEnter
    \/ BackoffElapse
    \/ BackoffReturn

SpecBackoff == InitBackoff /\ [][NextBackoff]_vars

\* The client with callers of Stop, with and without a ceiling and with a policy
\* that retries at most once.
InitStop ==
    /\ maxAttempts \in {0, 1}
    /\ writeLimiter = FALSE
    /\ staleMessageTimeout = 0
    /\ pingInterval = FALSE
    /\ retryBudget = 1
    /\ maxBackoff = 0
    /\ Fresh

NextStop ==
    \/ Session
    \/ StopCheck
    \/ StopClose

SpecStop == InitStop /\ [][NextStop]_vars

\* a step of the goroutine of Start from connect's return to Start's test of
\* run's error
RunStep ==
    \/ RunSnapshot
    \/ OnOpen
    \/ LoopStep

\* Every goroutine that can run does: the reader gets the error of a closed
\* connection and sends it; onOpen, the handler, conn.Close and onClose return,
\* and the loop's select takes a case when one stays ready.
SpecStopFair == SpecStop /\ WF_vars(ReaderFailClosed) /\ WF_vars(RunStep)

\* The client whose Start is called again after it has returned, with and
\* without a ceiling and with a policy that retries at most once, without
\* callers of Stop and Close.
InitRestart ==
    /\ maxAttempts \in {0, 1}
    /\ writeLimiter = FALSE
    /\ staleMessageTimeout = 0
    /\ pingInterval = FALSE
    /\ retryBudget = 1
    /\ maxBackoff = 0
    /\ Fresh

NextRestart ==
    \/ Session
    \/ StartAgain

SpecRestart == InitRestart /\ [][NextRestart]_vars

\* The client with a stale timeout below and above the grace period, no ceiling
\* and a policy that retries at most once, without callers of Stop and Close; the
\* clock advances.
InitStale ==
    /\ maxAttempts = 0
    /\ writeLimiter = FALSE
    /\ staleMessageTimeout \in {2, 61}
    /\ pingInterval = FALSE
    /\ retryBudget = 1
    /\ maxBackoff = 0
    /\ Fresh

SpecStale == InitStale /\ [][NextTimers]_vars

\* The client with a write limiter, no ceiling and a policy that retries at most
\* once, with callers of Close and Write.
InitSend ==
    /\ maxAttempts = 0
    /\ writeLimiter = TRUE
    /\ staleMessageTimeout = 0
    /\ pingInterval = FALSE
    /\ retryBudget = 1
    /\ maxBackoff = 0
    /\ Fresh

SpecSend == InitSend /\ [][NextWrite]_vars

\* The client with a ping interval and a write limiter, its callbacks running
\* while Write, Close and Stop are called on it.
InitCallbacks ==
    /\ maxAttempts = 0
    /\ writeLimiter = TRUE
    /\ staleMessageTimeout = 0
    /\ pingInterval = TRUE
    /\ retryBudget = 1
    /\ maxBackoff = 0
    /\ Fresh

NextCallbacks ==
    \/ NextWrite
    \/ StopCheck
    \/ StopClose
    \/ PingTick
    \/ PingReturn
    \/ PingCancel
    \/ OldPingFails
    \/ OldPingCancel

SpecCallbacks == InitCallbacks /\ [][NextCallbacks]_vars

\* a user callback is running: onOpen, the message handler, onClose, the
\* reconnect policy on the goroutine of Start, the ping handler on its own
CallbackRuns == pc \in {"onOpen", "handler", "onClose", "policy"} \/ pinger = "probing"

\* ================================================================== claims
\* the current attempt has ended and its deferred onClose, if any, has run
AttemptOver == cause # "none" /\ pc \in {"teardownClose", "teardownClear", "runRet", "policy", "done"}

\* every answer of the reconnect policy so far was true
PolicyAlwaysTrue == policyTrue = policyCount

\* C1: if ctx is cancelled while the event loop runs, Start returns nil, and
\* onClose has run exactly once for a connection whose onOpen had completed.
\* Stated for the behaviours in which the loop ended on ctx.Done().
C1_CancelReturnsNil ==
    /\ (cancelEnded /\ pc = "done") => ret = Nil
    /\ (cause = "cancel" /\ AttemptOver /\ opened = 1) => closed = 1

\* C2: once the event loop has ended an attempt on ctx.Done(), the reconnect
\* policy is not called for that attempt and connect is not called again.
C2_NoPolicyAfterCancel ==
    /\ cause = "cancel" => pc # "policy"
    /\ cancelEnded => pc \notin {"connect", "dialing"}

\* C3: the messages conn.Read returned on a connection are handed to the handler
\* once each, in order, one call at a time: the handler has been called with
\* 1, 2, ..., up to the last message read (less the one the reader still holds),
\* with all of them when the attempt ends on a read error.
C3_HandledInOrder ==
    /\ handled = [i \in 1..Len(handled) |-> i]
    /\ readCnt = Len(handled) + (IF rstate = "sendData" THEN 1 ELSE 0)
    /\ active \in {0, 1}
    /\ (active = 1) = (pc = "handler")
    /\ (pc = "handler" => curMsg = handled[Len(handled)])
    /\ (cause = "read" => Len(handled) = readCnt)

C3_Witness == pc = "runRet" /\ cause = "read" /\ handled = <<1, 2>>

\* C4: when the handler returns an error on message k, the loop is left, k stays
\* the last message handled on that connection, the attempt's error is that
\* error, and Start returns it when the policy declines.
C4_HandlerErrorEndsAttempt ==
    cause = "handler" =>
        /\ pc \notin {"onOpen", "loop", "handler"}
        /\ active = 0
        /\ Len(handled) >= 1
        /\ err = HandlerError(handled[Len(handled)])
        /\ (pc = "done" => ret = err /\ lastPolicy = [err |-> err, again |-> FALSE])

\* the handler failed on the first message, a second one was read and never handled
C4_Witness ==
    /\ pc = "done"
    /\ cause = "handler"
    /\ ret = HandlerError(1)
    /\ rstate = "sendData"
    /\ readCnt = 2

\* C5: Write entered while c.conn is nil is never blocked and returns
\* ErrNotConnected in that step: no limiter wait, no send, nothing pending, and
\* the supervisor's state untouched; wherever the supervisor is.
C5_WriteNotConnected ==
    /\ []((conn = 0 /\ wpc = "idle" /\ ~panicked) => ENABLED WriteEnter)
    /\ [][(wpc = "idle" /\ wpc' # "idle" /\ conn = 0) =>
            /\ wpc' = "returned"
            /\ wret' = ErrNotConnected
            /\ wsentOn' = 0
            /\ UNCHANGED <<supVars, envVars, readerVars>>]_vars

\* Write has returned ErrNotConnected while Start is in the reconnect policy,
\* after a connection has come and gone
C5_Witness ==
    /\ wpc = "returned"
    /\ wret = ErrNotConnected
    /\ wsentOn = 0
    /\ pc = "policy"
    /\ nextConn = 1

\* C6: when the policy answers false for error e, Start returns e and connect is
\* not called again; if its first answer is false (the default policy) connect
\* was called once and Start returns the first attempt's error.
C6_PolicyAuthoritative ==
    /\ []((policyCount > 0 /\ ~lastPolicy.again) =>
            (pc = "done" /\ ret = lastPolicy.err /\ ret = err))
    /\ []((pc = "done" /\ policyTrue = 0) =>
            (connectCalls = 1 /\ dialAttempts = 1 /\ dials <= 1 /\ ~IsMaxAttempts(ret)))
    /\ [][pc = "done" => (pc' = "done" /\ UNCHANGED <<dialHist, ret>>)]_vars

C6_Witness ==
    /\ pc = "done"
    /\ policyCount = 1
    /\ lastPolicy = [err |-> DialError, again |-> FALSE]
    /\ ret = DialError

\* C7 as claimed: with a policy that always answers true and a ceiling K > 0,
\* Start makes exactly K dial attempts and returns MaxAttemptsError.
C7_ExactlyKDials ==
    (pc = "done" /\ maxAttempts > 0 /\ PolicyAlwaysTrue) =>
        (IsMaxAttempts(ret) /\ dialAttempts = maxAttempts)

\* C7 amended: with a policy that always answers true, Start returns only
\* MaxAttemptsError, and only after K dial attempts in a row that produced no
\* connection; if no dial ever succeeded these are all its dial attempts.
C7_KFailedInARow ==
    (pc = "done" /\ PolicyAlwaysTrue) =>
        /\ maxAttempts > 0
        /\ ret = MaxAttemptsError(maxAttempts)
        /\ streak = maxAttempts
        /\ policyCount = dialAttempts
        /\ (nextConn = 0 => dialAttempts = maxAttempts)

C7_Witness ==
    /\ pc = "done"
    /\ IsMaxAttempts(ret)
    /\ maxAttempts = 2
    /\ dialAttempts = 2
    /\ dialFails = 2
    /\ nextConn = 0

\* C8: a call of connect with the counter at the ceiling resolves no endpoint and
\* dials nothing; run returns MaxAttemptsError, which Start returns without
\* calling the reconnect policy with it.
C8_CeilingStopsBeforeDial ==
    /\ [][(pc = "connect" /\ pc' # "connect"
            /\ maxAttempts > 0 /\ currentAttempts >= maxAttempts) =>
            /\ endpointCalls' = endpointCalls
            /\ dials' = dials
            /\ dialAttempts' = dialAttempts
            /\ IsMaxAttempts(err')
            /\ pc' = "runRet"]_vars
    /\ [](IsMaxAttempts(err) => (pc \in {"runRet", "done"} /\ (pc = "done" => ret = err)))
    /\ [](~IsMaxAttempts(lastPolicy.err))

C8_Witness ==
    /\ pc = "done"
    /\ ret = MaxAttemptsError(1)
    /\ maxAttempts = 1
    /\ policyCount = 1
    /\ dials = 1

\* The scenario of C9: ceiling 5, the policy has answered true every time, the
\* first two dials failed, the third attempt's dial succeeded and it is connected.
C9_Scenario ==
    /\ maxAttempts = 5
    /\ PolicyAlwaysTrue
    /\ connectCalls = 3
    /\ dials = 3
    /\ dialFails = 2
    /\ nextConn = 1
    /\ pc \in {"onOpen", "loop", "handler"}

\* C9 as claimed: the policy has seen exactly 3 Dial errors, the counter is 0.
C9_ThreeDialErrors == C9_Scenario => (policyDialErrs = 3 /\ currentAttempts = 0)

\* C9 amended: the policy has seen exactly 2 Dial errors (one per failed dial)
\* and nothing else, the third attempt is connected, the counter is 0.
C9_TwoDialErrors ==
    C9_Scenario =>
        /\ policyDialErrs = 2
        /\ policyCount = 2
        /\ lastPolicy = [err |-> DialError, again |-> TRUE]
        /\ currentAttempts = 0
        /\ dialed = 1

C9_Witness == C9_Scenario /\ pc = "loop" /\ conn = 1

\* C10: onClose runs exactly once for every connection onOpen was called on,
\* whatever ended it (onOpen's own error too), and never for a failed dial.
C10_OnCloseOncePerOnOpen ==
    /\ closed <= opened
    /\ closed <= 1
    /\ (dialed = 0 => closed = 0)
    /\ (AttemptOver /\ opened >= 1) => closed = 1

\* C11: when onOpen returns an error the attempt ends at once with that error:
\* the handler is never called on that connection, the connection is closed and
\* c.conn cleared before run returns, and Start returns that error when the
\* policy declines.
C11_OnOpenErrorEndsAttempt ==
    cause = "onOpen" =>
        /\ pc \in {"teardownClose", "teardownClear", "runRet", "policy", "connect", "done"}
        /\ dialed # 0
        /\ err = OnOpenError(dialed)
        /\ handled = <<>>
        /\ active = 0
        /\ (pc # "teardownClose" => dialed \notin isOpen)
        /\ (pc \notin {"teardownClose", "teardownClear"} => conn = 0)
        /\ (pc = "done" => ret = err /\ lastPolicy = [err |-> err, again |-> FALSE])

\* onOpen failed on the first connection, a message had been read on it, and
\* Start has returned onOpen's error
C11_Witness ==
    /\ pc = "done"
    /\ cause = "onOpen"
    /\ ret = OnOpenError(1)
    /\ readCnt = 1
    /\ conn = 0
    /\ isOpen = {}

\* C12: when onClose is called, the connection has been closed and c.conn has
\* been cleared.
C12_OnCloseAfterTeardown ==
    [][closed' > closed => (conn = 0 /\ localConn \notin isOpen)]_vars

\* C13: without a stale timeout the stale check never closes the connection,
\* whatever its age and however long it has been silent: until the attempt
\* ends the connection stays open and the ticker runs.
C13_NoTimeoutNeverCloses ==
    staleMessageTimeout = 0 =>
        /\ staleCloses = 0
        /\ pc # "staleClose"
        /\ (pc \in {"loop", "handler"} => localConn \in isOpen /\ ~tickerStopped)

\* no timeout: a connection a minute old, silent since its last message, has
\* been through the stale check and is still open
C13_Witness ==
    /\ staleMessageTimeout = 0
    /\ pc = "loop"
    /\ age = Grace
    /\ gotMsg
    /\ silence > 0
    /\ staleChecked
    /\ ~tickPending
    /\ localConn \in isOpen

\* the event loop takes a tick of the stale ticker in this step
StaleCheckStep == pc = "loop" /\ tickPending /\ ~tickPending'

\* C14 as claimed: with a timeout configured, the stale check never closes a
\* connection younger than the grace window, message or no message.
C14_NeverClosesInGrace ==
    [][staleCloses' > staleCloses => age >= Grace]_vars

\* C14 amended: the stale check never closes a connection younger than the grace
\* window on which no message has arrived; once a message has arrived the grace
\* window no longer applies, and a check that finds the connection silent for
\* more than the timeout closes it at any age.
C14_GraceUntilFirstMessage ==
    /\ [][staleCloses' > staleCloses =>
            /\ staleMessageTimeout # 0
            /\ (age >= Grace \/ (gotMsg /\ silence > staleMessageTimeout))]_vars
    /\ [][(StaleCheckStep /\ staleMessageTimeout # 0 /\ gotMsg
            /\ silence > staleMessageTimeout) =>
            staleCloses' = staleCloses + 1]_vars

\* a timeout is configured: a connection younger than a minute, on which nothing
\* has arrived, has been through the stale check and is still open
C14_Witness ==
    /\ staleMessageTimeout # 0
    /\ pc = "loop"
    /\ ~gotMsg
    /\ age > staleMessageTimeout
    /\ age < Grace
    /\ staleChecked
    /\ staleCloses = 0
    /\ localConn \in isOpen

\* C15: with a timeout configured, a stale check on a connection older than the
\* grace window and silent for more than the timeout closes it, and the stale
\* check calls conn.Close at most once on a connection.
C15_StaleClosedOnce ==
    /\ [][(StaleCheckStep /\ staleMessageTimeout # 0 /\ age >= Grace
            /\ (~gotMsg \/ silence > staleMessageTimeout) /\ staleCloses = 0) =>
            (staleCloses' = 1 /\ localConn \notin isOpen')]_vars
    /\ [](staleCloses <= 1)

C17_PingErrorEndsAttempt ==
    (pinger = "failed") ~> (pc \in {"runRet", "policy", "connect", "done"})

\* C18: Stop closes the connection that is current or does nothing; it never
\* uses a reference that teardown or Close has cleared.
C18_StopSafe ==
    [][(spc = "closing" /\ spc' = "idle") =>
        /\ conn # 0
        /\ ~panicked'
        /\ isOpen' = isOpen \ {conn}]_vars

\* C19: at most one connection dialed by the client is open at any time, the
\* last one dialed; none is open from run's return through the reconnect policy
\* and connect until websocket.Dial returns.
C19_OneConnectionOpen ==
    /\ Cardinality(isOpen) <= 1
    /\ isOpen \subseteq {nextConn}
    /\ (pc \in {"idle", "runRet", "policy", "connect", "dialing", "done"} => isOpen = {})
    /\ (pc \in {"policy", "connect", "dialing"} => conn = 0)

\* the second connection is up, the first one closed
C19_Witness ==
    /\ pc = "loop"
    /\ nextConn = 2
    /\ conn = 2
    /\ isOpen = {2}
    /\ policyCount = 1

\* C20: a call of Write that returns ErrNotConnected or the encoder's error has
\* called conn.Write on nothing and has left c.conn, the counter, the
\* supervisor, the transport and the reader as they were; the encoder's error
\* is returned as it is.
C20_FailedWriteTouchesNothing ==
    /\ [][(wpc # "returned" /\ wpc' = "returned"
            /\ wret' \in {ErrNotConnected, EncoderError}) =>
            /\ wsentOn' = 0
            /\ UNCHANGED <<supVars, envVars, readerVars, timerVars>>]_vars
    /\ [][(wpc = "idle" /\ wpc' = "returned" /\ conn # 0) => wret' = EncoderError]_vars

\* the encoder failed in a call of Write made while the first connection is up
C20_Witness ==
    /\ wpc = "returned"
    /\ wret = EncoderError
    /\ wsentOn = 0
    /\ pc = "loop"
    /\ conn = 1
    /\ conn \in isOpen

\* C21 as claimed: with a write limiter, a call of Write whose context ends
\* before a token is granted returns an error and sends nothing, and a call
\* that gets a token calls conn.Write exactly once.
C21_TokenSendsOnce ==
    /\ [](wret = LimiterError => (wpc = "returned" /\ wsentOn = 0))
    /\ [][(writeLimiter /\ wpc = "send" /\ wpc' = "returned") => wsentOn' # 0]_vars

\* C21 amended: ... a call that gets a token calls conn.Write once if c.conn is
\* still set when Send reads it again, on that connection; if it has been
\* cleared meanwhile the call returns ErrNotConnected and sends nothing.
C21_TokenSendsIfConnected ==
    /\ [](wret = LimiterError => (wpc = "returned" /\ wsentOn = 0))
    /\ [][(wpc = "wait" /\ wpc' # "wait") =>
            /\ wsentOn' = 0
            /\ \/ wpc' = "returned" /\ wret' = LimiterError
               \/ wpc' = "send" /\ wret' = Nil]_vars
    /\ [][(writeLimiter /\ wpc = "send" /\ wpc' = "returned") =>
            IF conn = 0
            THEN wret' = ErrNotConnected /\ wsentOn' = 0
            ELSE wsentOn' = conn /\ wret' \in {Nil, WriteError(conn)}]_vars
    /\ [](wsentOn # 0 => wpc = "returned")

\* the limiter's wait ended on the caller's context while the first connection
\* is up: Write has returned that error
C21_Witness ==
    /\ writeLimiter
    /\ wpc = "returned"
    /\ wret = LimiterError
    /\ wsentOn = 0
    /\ conn = 1
    /\ conn \in isOpen

\* C22 as claimed: when the context is cancelled while Start is blocked in the
\* sleep of the backoff policy, the sleep ends there (no more of it is slept)
\* and Start returns without another call of connect.
C22_CancelAbortsBackoff ==
    [][(pc = "backoff" /\ cancelled) =>
        (slept' = slept /\ pc' \in {"backoff", "done"})]_vars

\* C25: whatever the number of the call and the jitter, the delay of the
\* backoff policy is greater than zero and at most maxBackoff.
C25_DelayWithinCap ==
    /\ pc = "backoff" => (delay > 0 /\ delay <= maxBackoff /\ slept <= delay)
    /\ pc # "backoff" => delay = 0

\* the second call with the largest jitter under a cap of 5 ms: the delay is the
\* cap
C25_Witness ==
    /\ pc = "backoff"
    /\ count = 2
    /\ mills = maxMillis - 1
    /\ maxBackoff = 5
    /\ delay = 5
    /\ slept = 5

\* 16 raised to the power n
RECURSIVE Pow16(_)
Pow16(n) == IF n = 0 THEN 1 ELSE 16 * Pow16(n - 1)

\* C26 as claimed: the n-th call sleeps min(maxBackoff, 16^n + jitter)
\* milliseconds, 16^n being 16, 256, 4096, ..., with a jitter from 5 to 999; the
\* delay without the cap is at least 16^n and grows with n.
C26_DelayIsPowerOfSixteen ==
    (pc = "backoff" /\ count <= 6) =>
        /\ mills \in minMillis..maxMillis
        /\ delay = Min(maxBackoff, Pow16(count) + mills)
        /\ BackoffUncapped(count, mills) >= Pow16(count)
        /\ BackoffUncapped(count + 1, minMillis) > BackoffUncapped(count, minMillis)

\* C27: the backoff policy returns true whatever error it is given, and only
\* when it has slept the whole delay, which is at least a millisecond, and at
\* least 5 ms when maxBackoff is; Start then connects again.
C27_BackoffSleepsThenTrue ==
    [][(pc = "backoff" /\ pc' # "backoff") =>
        /\ slept = delay
        /\ delay >= 1
        /\ (maxBackoff >= minMillis => delay >= minMillis)
        /\ pc' = "connect"
        /\ lastPolicy' = [err |-> err, again |-> TRUE]
        /\ policyCount' = policyCount + 1
        /\ policyTrue' = policyTrue + 1]_vars

\* the policy has slept 22 ms and returned true for the error of a handler, and
\* Start is about to connect again
C27_Witness ==
    /\ pc = "connect"
    /\ maxBackoff = 30
    /\ count = 1
    /\ policyTrue = 1
    /\ lastPolicy = [err |-> HandlerError(1), again |-> TRUE]

\* C23: an attempt that fails in connect ends with the error of the step that
\* failed, the provider's error wrapped with "dial options", the resolver's
\* error as it is, or the error of websocket.Dial, and that error is the
\* argument of the reconnect policy; the attempt starts no reader and no ping
\* goroutine, calls neither onOpen nor onClose, and leaves c.conn nil.
C23_DialingFailure ==
    /\ [][(pc = "connect" /\ pc' = "runRet" /\ ~IsMaxAttempts(err')) =>
            /\ cause' = "connect"
            /\ IF endpointCalls' = endpointCalls
               THEN err' = <<"dial options", OptionsError>>
               ELSE err' = EndpointError /\ dials' = dials]_vars
    /\ [][(pc = "dialing" /\ pc' = "runRet") =>
            (cause' = "connect" /\ err' = DialError)]_vars
    /\ [][(cause = "connect" /\ ~IsMaxAttempts(err) /\ pc = "runRet" /\ pc' # pc) =>
            (pc' = "policy" /\ err' = err)]_vars
    /\ [][(cause = "connect" /\ pc = "policy" /\ pc' # pc) =>
            lastPolicy'.err = err]_vars
    /\ [](cause = "connect" =>
            /\ rstate = "none"
            /\ pinger = "none"
            /\ opened = 0
            /\ closed = 0
            /\ dialed = 0
            /\ localConn = 0
            /\ conn = 0)

\* with a ping interval set, the dial-options provider failed and its wrapped
\* error has been given to the policy, which declined
C23_Witness ==
    /\ pingInterval
    /\ pc = "done"
    /\ cause = "connect"
    /\ ret = <<"dial options", OptionsError>>
    /\ lastPolicy = [err |-> ret, again |-> FALSE]
    /\ connectCalls = 1
    /\ endpointCalls = 0

\* C24: when Start has returned the error the policy declined, it has made one
\* attempt more than the policy answered true, and the policy has been called
\* once for each attempt, after it ended: once per return of run, never
\* otherwise.
C24_AttemptsAreTruesPlusOne ==
    /\ []((pc = "done" /\ ~IsMaxAttempts(ret)) =>
            /\ dialAttempts = policyTrue + 1
            /\ connectCalls = dialAttempts
            /\ policyCount = connectCalls
            /\ lastPolicy = [err |-> ret, again |-> FALSE])
    /\ [][(pc = "runRet" /\ pc' # pc /\ ~IsMaxAttempts(err)) => pc' = "policy"]_vars
    /\ [][policyCount' # policyCount =>
            /\ pc = "policy"
            /\ pc' \in {"connect", "done"}
            /\ policyCount' = policyCount + 1
            /\ policyCount' = connectCalls]_vars
    /\ [][(pc = "policy" /\ pc' # pc) => policyCount' = policyCount + 1]_vars

\* the policy answered true once and then false: two connections were made
C24_Witness ==
    /\ pc = "done"
    /\ policyTrue = 1
    /\ policyCount = 2
    /\ dialAttempts = 2
    /\ nextConn = 2
    /\ ~lastPolicy.again

\* C28 as claimed: the ping handler is called only with a ping interval set;
\* with one, while a connection is up, it is called once for each interval, by
\* the one ping goroutine of that connection; with an interval of 0 no goroutine
\* calls it.
C28_OneProbePerInterval ==
    /\ ~pingInterval => (pinger = "none" /\ oldPingers = 0)
    /\ (pingInterval /\ pc \in {"loop", "handler"} /\ ~cancelled) =>
            (pinger \in {"running", "probing"} /\ oldPingers = 0)

\* C29: a message is handed to the handler at most once in the life of the
\* process. Each call of the handler takes from the reader of the newest
\* connection the message it has just read, which is later than every message
\* handed over on that connection, and the reader goes on to read the next; an
\* attempt starts with a new reader and new channels, so a message that a
\* reader still held when its attempt ended is never handed over.
C29_AtMostOnce ==
    /\ [][handled' # handled =>
            \/ pc = "connect" /\ handled' = <<>>
            \/ /\ pc = "loop"
               /\ rstate = "sendData"
               /\ rstate' = "read"
               /\ localConn = dialed
               /\ dialed = nextConn
               /\ curMsg' = readCnt
               /\ handled' = Append(handled, readCnt)
               /\ \A i \in 1..Len(handled) : handled[i] < readCnt]_vars
    /\ [][(rstate = "sendData" /\ rstate' # rstate) =>
            \/ pc = "loop" /\ handled' = Append(handled, readCnt)
            \/ pc = "connect" /\ rstate' = "none" /\ orphans' = orphans + 1]_vars
    /\ [](pc \in {"dialing", "connected"} =>
            (rstate = "none" /\ readCnt = 0 /\ curMsg = 0))
    /\ [][(pc = "connected" /\ pc' # pc) =>
            (readCnt' = 0 /\ rstate' \in {"read", "nil"})]_vars
    /\ [][orphans' >= orphans]_vars

\* the first attempt has ended on the handler's error for message 1 while the
\* reader held message 2, which it had read and not handed over
C29_Witness ==
    /\ pc = "policy"
    /\ cause = "handler"
    /\ err = HandlerError(1)
    /\ rstate = "sendData"
    /\ readCnt = 2
    /\ handled = <<1>>
    /\ nextConn = 1

\* C30 as claimed: once its connection has ended and run has returned, whatever
\* ended it, the reader has returned too or is about to: it is not waiting on a
\* send that nobody will receive, and no reader of an earlier attempt is left.
C30_ReaderTerminates ==
    pc \in {"runRet", "policy", "connect", "done"} =>
        (rstate \notin {"sendData", "sendErr"} /\ orphans = 0)

\* C31 as claimed: the ping goroutine of a connection stops when the connection
\* ends: once run has returned none of its ping goroutine is left, nor that of
\* any earlier call, so there is at most one at any time.
C31_PingerStopsWithConnection ==
    /\ pc \in {"runRet", "policy", "connect", "done"} => pinger \notin {"running", "probing"}
    /\ oldPingers = 0

\* C32: c.conn is set only from the successful dial of an attempt to the
\* teardown of that attempt, and then it is the connection that attempt dialed.
\* Before Start, in connect, after run has returned (in the reconnect policy and
\* its backoff) and after Start has returned, IsConnected() is false and a call
\* of Write returns ErrNotConnected and sends nothing.
C32_ConnOnlyWithinAttempt ==
    /\ [](pc \in {"idle", "connect", "dialing", "runRet", "policy", "backoff", "done"} =>
            ~IsConnected)
    /\ [](IsConnected => (conn = dialed /\ conn = nextConn))
    /\ [][(wpc = "idle" /\ wpc' # wpc
            /\ pc \in {"idle", "connect", "dialing", "runRet", "policy", "backoff", "done"}) =>
            (wpc' = "returned" /\ wret' = ErrNotConnected /\ wsentOn' = 0)]_vars

\* after the first connection has ended and while the policy is being asked,
\* Write has returned ErrNotConnected
C32_Witness ==
    /\ pc = "policy"
    /\ nextConn = 1
    /\ dialed = 1
    /\ cpc = "idle"
    /\ ~IsConnected
    /\ wpc = "returned"
    /\ wret = ErrNotConnected

\* C33: data and readErr are made anew by each call of run, written by the
\* reader that call starts and read by that call's loop alone. The reader is
\* started on channels nothing has been sent on; everything taken from them is
\* taken by the loop of the attempt whose connection the reader reads, a read
\* error being that connection's; and what the reader of an ended attempt still
\* has to send stays with it and is taken by no later attempt.
C33_ChannelsPerAttempt ==
    /\ [][(pc = "connected" /\ pc' # pc) =>
            /\ rstate = "none"
            /\ readCnt = 0
            /\ rstate' = (IF conn = 0 THEN "nil" ELSE "read")
            /\ localConn' = conn]_vars
    /\ [][(rstate \in {"sendData", "sendErr"} /\ rstate' # rstate /\ pc # "connect") =>
            /\ pc = "loop"
            /\ localConn = dialed
            /\ dialed = nextConn
            /\ localConn' = localConn
            /\ IF rstate = "sendErr"
               THEN rstate' = "done" /\ err' = ReadError(localConn) /\ UNCHANGED handled
               ELSE rstate' = "read" /\ pc' = "handler" /\ curMsg' = readCnt]_vars
    /\ [][(rstate \in {"sendData", "sendErr"} /\ rstate' # rstate /\ pc = "connect") =>
            /\ rstate' = "none"
            /\ orphans' = orphans + 1
            /\ curMsg' = 0
            /\ handled' = <<>>]_vars
    /\ [][orphans' # orphans => (pc = "connect" /\ orphans' = orphans + 1)]_vars
    /\ [](rstate \in {"read", "sendData", "sendErr", "done"} => (localConn # 0 /\ localConn = dialed))

\* the loop of the second attempt has taken the read error of the second
\* connection while the reader of the first is still waiting with its own
C33_Witness ==
    /\ pc = "onClose"
    /\ cause = "read"
    /\ err = ReadError(2)
    /\ nextConn = 2
    /\ rstate = "done"
    /\ orphans = 1
    /\ lastPolicy.err = HandlerError(1)

\* Stop has closed the connection of the attempt that is running
StoppedLive ==
    /\ dialed # 0
    /\ dialed \notin isOpen
    /\ pc \in {"connected", "onOpen", "loop", "handler"}

\* C34 as claimed: an attempt whose connection Stop has closed ends with the
\* reader's error, which is not nil.
C34_StopEndsInReadError ==
    [][(StoppedLive /\ pc' \in {"onClose", "teardownClose"}) =>
        (cause' = "read" /\ err' = ReadError(dialed) /\ err' # Nil)]_vars

\* C34 amended: Stop itself changes nothing of the session but the transport: it
\* does not clear c.conn and does not make Start return. The attempt whose
\* connection it closed ends (unless a later call of Stop panics first): with
\* the reader's error, or with what ends it before the loop takes that error,
\* the error of onOpen or of the handler, or nil on cancellation. What it ended
\* with goes to the policy,
\* and Start connects again exactly when the policy answers true.
C34_StopEndsConnectionOnly ==
    /\ [][spc' # spc => UNCHANGED <<pc, conn, err, ret, currentAttempts, readerVars, cancelled>>]_vars
    /\ [][(StoppedLive /\ pc' \in {"onClose", "teardownClose"}) =>
            \/ cause' = "read" /\ err' = ReadError(dialed)
            \/ cause' = "onOpen" /\ err' = OnOpenError(dialed) /\ pc = "onOpen"
            \/ cause' = "handler" /\ err' = HandlerError(curMsg) /\ pc = "handler"
            \/ cause' = "cancel" /\ err' = Nil /\ cancelled]_vars
    /\ [][(pc = "policy" /\ pc' # pc) =>
            /\ lastPolicy'.err = err
            /\ (pc' = "connect") = lastPolicy'.again
            /\ (pc' = "done") = ~lastPolicy'.again
            /\ (pc' = "done" => ret' = err)]_vars
    /\ StoppedLive ~> (panicked \/ pc \in {"runRet", "policy", "connect", "done"})

\* Stop closed the first connection, the attempt ended with the reader's error,
\* the policy answered true and Start has dialed the second connection
C34_Witness ==
    /\ spc = "idle"
    /\ nextConn = 2
    /\ isOpen = {2}
    /\ pc = "loop"
    /\ lastPolicy = [err |-> ReadError(1), again |-> TRUE]
    /\ ~cancelled

\* Close has closed and cleared the connection of the attempt that is running
ClosedLive ==
    /\ dialed # 0
    /\ dialed \notin isOpen
    /\ conn = 0
    /\ cpc = "idle"
    /\ pc \in {"connected", "onOpen", "loop", "handler"}

\* C35 as claimed: Close closes the transport and clears c.conn under the lock,
\* and the attempt whose connection Close took still ends through its reader's read error: the reader
\* has that connection to read from and the loop returns its error.
C35_CloseEndsInReadError ==
    /\ [][(cpc = "closing" /\ cpc' = "idle") =>
            (conn' = 0 /\ isOpen' = isOpen \ {conn})]_vars
    /\ [](ClosedLive => rstate # "nil")
    /\ [](~panicked)
    /\ [][(ClosedLive /\ pc' \in {"onClose", "teardownClose"}) =>
            (cause' = "read" /\ err' = ReadError(dialed))]_vars

\* C36: c.currentAttempts is the number of calls of connect in a row that gave
\* no connection: run sets it to 0 after every successful dial, before onOpen,
\* and it stays 0 to the end of that attempt however the attempt ends. So
\* MaxAttemptsError is returned only after maxAttempts attempts in a row without
\* a connection, and never while every dial succeeds, whatever ends the
\* attempts.
C36_CounterCountsFailedDialsInARow ==
    /\ [][(pc = "connected" /\ pc' # pc) => (pc' = "onOpen" /\ currentAttempts' = 0)]_vars
    /\ [][opened' > opened => (currentAttempts = 0 /\ streak = 0)]_vars
    /\ [](pc \in {"onOpen", "loop", "handler", "onClose", "teardownClose", "teardownClear"} =>
            (currentAttempts = 0 /\ streak = 0))
    /\ []((pc \in {"runRet", "policy", "connect"} /\ ~IsMaxAttempts(err)) =>
            currentAttempts = streak)
    /\ []((pc = "done" /\ IsMaxAttempts(ret)) =>
            (maxAttempts > 0 /\ streak = maxAttempts /\ dialAttempts >= nextConn + maxAttempts))
    /\ [](dialAttempts = nextConn => ~IsMaxAttempts(ret))

\* ceiling 1, a policy that answers true: two connections have ended, the second
\* on the handler's error, and Start has dialed a third; the counter is 0
C36_Witness ==
    /\ maxAttempts = 1
    /\ PolicyAlwaysTrue
    /\ policyCount = 2
    /\ nextConn = 3
    /\ dialAttempts = 3
    /\ lastPolicy.err = HandlerError(1)
    /\ pc = "loop"
    /\ currentAttempts = 0

\* C37: nothing but a successful dial sets c.currentAttempts back. Once Start has
\* returned MaxAttemptsError the counter is above the ceiling and stays there:
\* every later call of Start goes through connect's ceiling check alone and
\* returns MaxAttemptsError, with no call of the endpoint function, of
\* websocket.Dial or of the reconnect policy.
C37_ExhaustedForGood ==
    /\ [][currentAttempts' < currentAttempts =>
            (pc = "connected" /\ currentAttempts' = 0)]_vars
    /\ []((pc = "done" /\ IsMaxAttempts(ret)) => currentAttempts > maxAttempts)
    /\ []((maxAttempts > 0 /\ currentAttempts > maxAttempts) =>
            /\ pc \in {"done", "connect", "runRet"}
            /\ conn = 0
            /\ (pc = "runRet" => IsMaxAttempts(err))
            /\ (pc = "done" => IsMaxAttempts(ret)))
    /\ [][(maxAttempts > 0 /\ currentAttempts > maxAttempts) =>
            /\ currentAttempts' >= currentAttempts
            /\ UNCHANGED <<dialAttempts, endpointCalls, dials, nextConn, polHist>>]_vars

\* ceiling 1: the one dial failed, the second call of connect found the ceiling
\* and Start returned MaxAttemptsError; Start was called again and has returned
\* MaxAttemptsError after a third call of connect
C37_Witness ==
    /\ maxAttempts = 1
    /\ pc = "done"
    /\ IsMaxAttempts(ret)
    /\ connectCalls = 3
    /\ dialAttempts = 1
    /\ policyCount = 1
    /\ currentAttempts = 3

\* C38: with a timeout configured, on a connection on which no message has
\* arrived, the stale check closes the connection when it is at least 60 seconds
\* old, whatever the timeout is, a timeout above 60 seconds too, and leaves it
\* alone when it is younger.
C38_SilentConnectionClosedAtGrace ==
    /\ [][(StaleCheckStep /\ staleMessageTimeout # 0 /\ ~gotMsg) =>
            IF age >= Grace
            THEN /\ staleCloses' = staleCloses + 1
                 /\ localConn \notin isOpen'
                 /\ pc' = "staleClose"
            ELSE /\ UNCHANGED <<staleCloses, isOpen>>
                 /\ pc' = "loop"]_vars
    /\ [][(staleCloses' > staleCloses /\ ~gotMsg) => age >= Grace]_vars

\* a timeout of 61 seconds: the connection, 60 seconds old and without a message,
\* has been closed by its first stale check at that age
C38_Witness ==
    /\ staleMessageTimeout = 61
    /\ pc = "staleClose"
    /\ ~gotMsg
    /\ age = Grace
    /\ staleCloses = 1
    /\ localConn \notin isOpen

\* C39: Send reads c.conn after the limiter's wait, not before. A call of Write
\* that passed the nil check waits without sending; when the wait has ended it
\* sends on the connection c.conn then holds, which may be another than the one
\* Write saw, and returns ErrNotConnected without sending if c.conn is nil by
\* then.
C39_SendReadsConnAfterWait ==
    /\ [](wpc \in {"wait", "send"} => (wconn # 0 /\ wsentOn = 0))
    /\ [][(wpc = "wait" /\ wpc' # wpc) =>
            /\ wsentOn' = 0
            /\ wpc' = "send" \/ (wpc' = "returned" /\ wret' = LimiterError)]_vars
    /\ [][(wpc = "send" /\ wpc' # wpc) =>
            /\ wpc' = "returned"
            /\ IF conn = 0
               THEN wret' = ErrNotConnected /\ wsentOn' = 0
               ELSE wsentOn' = conn /\ wret' = (IF conn \in isOpen THEN Nil ELSE WriteError(conn))]_vars

\* Write was entered on the first connection; while it waited for its token the
\* connection ended and Start dialed the second, on which the payload was sent
C39_Witness ==
    /\ writeLimiter
    /\ wpc = "returned"
    /\ wconn = 1
    /\ wsentOn = 2
    /\ wret = Nil
    /\ conn = 2

====
